---- MODULE Spec2Model ----
(***************************************************************************)
(* Netum Bluetooth printer session (src/netum_printer.py, src/main.py).    *)
(*                                                                         *)
(* The model follows one NetumPrinter object from its construction through *)
(* any sequence of connect / disconnect / print_text / print_line /        *)
(* feed_lines calls, made directly or inside a `with` scope.  The serial   *)
(* layer (pyserial) is the environment: every serial.Serial object the     *)
(* session opens is a numbered handle with an is_open flag and a count of  *)
(* the close() calls it received, and every call the session makes on the  *)
(* serial layer during one operation is recorded, in order, in `io`.       *)
(***************************************************************************)
EXTENDS Integers, Sequences, FiniteSets

VARIABLES
    phase,      \* "new" before __init__, "out" outside a with scope, "in" inside one
    self,       \* the NetumPrinter attributes: port, baudrate, connection, is_connected
    handles,    \* the serial.Serial objects opened so far: [is_open, closes]
    io,         \* serial-layer calls made by the last operation, in call order
    last,       \* the last operation: name, argument, result, state before it
    exc,        \* the exception propagating in the caller, "none" when there is none
    scope_base, \* number of handles that existed when the current scope was entered
    hist,       \* history since the last successful connect
    steps       \* number of operations performed

vars == <<phase, self, handles, io, last, exc, scope_base, hist, steps>>

-----------------------------------------------------------------------------
(* Bounds of the model *)

MaxOps == 3
MaxLen == 1
MaxPorts == 2
MaxFeed == 2

-----------------------------------------------------------------------------
(* Values *)

\* Python's None, for self.port and the port argument
None == "None"

\* self.connection = None
NoConnection == 0

\* device names the OS enumeration can report
Ports == {"COM3", "COM8", "COM9"}

\* port descriptions reported by the OS enumeration
Descriptions == {"Standard Serial over Bluetooth link", "USB Serial Port"}

\* code points used in str payloads: H, e-acute, euro sign, a lone surrogate
Chars == {72, 233, 8364, 55296}

\* byte values used in bytes payloads
ByteVals == {72, 255}

\* baudrate arguments: the default and one pyserial rejects
Baudrates == {9600, 0 - 1}

\* all sequences over S of length at most n
SeqsUpTo(S, n) == UNION {[1..k -> S] : k \in 0..n}

\* "\n"
NL == 10


-----------------------------------------------------------------------------
(* Pure helpers *)

\* text.encode('utf-8') for one code point outside the surrogate range
Utf8Char(c) ==
    IF c < 128 THEN <<c>>
    ELSE IF c < 2048 THEN <<192 + (c \div 64), 128 + (c % 64)>>
    ELSE IF c < 65536
         THEN <<224 + (c \div 4096), 128 + ((c \div 64) % 64), 128 + (c % 64)>>
    ELSE <<240 + (c \div 262144), 128 + ((c \div 4096) % 64),
           128 + ((c \div 64) % 64), 128 + (c % 64)>>

\* a lone surrogate has no UTF-8 encoding: str.encode raises UnicodeEncodeError
IsSurrogate(c) == c >= 55296 /\ c <= 57343

RECURSIVE Utf8(_)
\* text.encode('utf-8') of an encodable str, code point by code point
Utf8(text) ==
    IF text = <<>> THEN <<>> ELSE Utf8Char(Head(text)) \o Utf8(Tail(text))

\* whether text.encode('utf-8') returns instead of raising
Encodable(text) == \A i \in 1..Len(text) : ~IsSurrogate(text[i])

\* "\n" * count: empty for count <= 0
Repeat(c, count) == [i \in 1..(IF count > 0 THEN count ELSE 0) |-> c]

\* 'bluetooth' in p.description.lower()
IsBluetooth(description) == description = "Standard Serial over Bluetooth link"

\* the record print_info built for one retained port (bt_address only feeds print)
PrinterInfo(p) == [port |-> p.device, description |-> p.description]

RECURSIVE BtPorts(_)
\* the list comprehension keeping the Bluetooth ports, in enumeration order
BtPorts(ports) ==
    IF ports = <<>> THEN <<>>
    ELSE IF IsBluetooth(Head(ports).description)
         THEN <<Head(ports)>> \o BtPorts(Tail(ports))
         ELSE BtPorts(Tail(ports))

\* discover_netum_printers(), given what serial.tools.list_ports.comports() returns
discover_netum_printers(comports) ==
    LET bt == BtPorts(comports)
    IN  [i \in 1..Len(bt) |-> PrinterInfo(bt[i])]

RECURSIVE PreferredFrom(_, _)
\* the for loop looking for COM8: index of the first match from i on, 0 for none
PreferredFrom(printers, i) ==
    IF i > Len(printers) THEN 0
    ELSE IF printers[i].port = "COM8" THEN i
    ELSE PreferredFrom(printers, i + 1)

-----------------------------------------------------------------------------
(* The serial layer as the session sees it *)

\* one call on the serial layer: open (serial.Serial(...)), write, flush, close
IoCall(call, h, data) == [call |-> call, h |-> h, data |-> data]

\* outcomes of serial.Serial(port=..., baudrate=...): pyserial raises ValueError
\* for a baudrate out of range, else opens or raises SerialException
OpenOutcomes(port, baudrate) ==
    IF baudrate < 0 THEN {"ValueError"} ELSE {"ok", "SerialException"}

\* outcomes of connection.write(data); connection.flush()
WriteOutcomes == {"ok", "write_raises", "flush_raises"}

\* what a method call leaves behind: attributes, handles, serial calls, result
Outcome(s, hs, calls, result, e) ==
    [self |-> s, handles |-> hs, io |-> calls, result |-> result, exc |-> e]

-----------------------------------------------------------------------------
(* NetumPrinter methods *)

\* mutant: auto-discovery takes the first printer, ignoring the preferred port
init_first(port, baudrate, auto_discover, comports) ==
    LET printers == discover_netum_printers(comports)
        chosen == IF port = None /\ auto_discover
                  THEN IF printers # <<>> THEN printers[1].port ELSE None
                  ELSE port
    IN  [port |-> chosen, baudrate |-> baudrate,
         connection |-> NoConnection, is_connected |-> FALSE]

\* NetumPrinter.__init__
__init__(port, baudrate, auto_discover, comports) ==
    LET printers == discover_netum_printers(comports)
        pref == PreferredFrom(printers, 1)
        chosen == IF port = None /\ auto_discover
                  THEN IF printers # <<>>
                       THEN IF pref # 0 THEN printers[pref].port
                            ELSE printers[1].port
                       ELSE None
                  ELSE port
    IN  [port |-> chosen, baudrate |-> baudrate,
         connection |-> NoConnection, is_connected |-> FALSE]

\* connection.close() on handle h
Close(hs, h) == [hs EXCEPT ![h] = [is_open |-> FALSE, closes |-> @.closes + 1]]

\* `self.connection = serial.Serial(...)` drops the session's reference to the
\* Serial object it held.  Whether that object is finalized there (and its
\* finalizer calls close()) depends on the interpreter and on other live
\* references: fin is TRUE when it is.
Rebound(s, hs, fin) ==
    IF s.connection # NoConnection /\ fin
    THEN [handles |-> Close(hs, s.connection),
          io |-> <<IoCall("close", s.connection, <<>>)>>]
    ELSE [handles |-> hs, io |-> <<>>]

\* the success path of connect: new handle stored, flag set
Connected(s, hs, fin) ==
    LET h == Len(hs) + 1
        old == Rebound(s, hs, fin)
    IN  Outcome([s EXCEPT !.connection = h, !.is_connected = TRUE],
                Append(old.handles, [is_open |-> TRUE, closes |-> 0]),
                <<IoCall("open", h, <<>>)>> \o old.io, "True", "none")

\* mutant: connect without the `self.port is None` guard
connect_unguarded(s, hs, outcome, fin) ==
    IF outcome = "ok"
    THEN Connected(s, hs, fin)
    ELSE Outcome([s EXCEPT !.is_connected = FALSE], hs,
                 <<IoCall("open", NoConnection, <<>>)>>, "False", "none")

\* mutant: the SerialException handler leaves is_connected as it was
connect_keeps_flag(s, hs, outcome, fin) ==
    IF s.port = None THEN Outcome(s, hs, <<>>, "False", "none")
    ELSE IF outcome = "ok"
    THEN Connected(s, hs, fin)
    ELSE IF outcome = "SerialException"
    THEN Outcome(s, hs, <<IoCall("open", NoConnection, <<>>)>>, "False", "none")
    ELSE Outcome(s, hs, <<IoCall("open", NoConnection, <<>>)>>, "raised", outcome)

\* NetumPrinter.connect; outcome is what serial.Serial(...) does, fin whether
\* the Serial object replaced in self.connection is finalized
connect(s, hs, outcome, fin) ==
    IF s.port = None THEN Outcome(s, hs, <<>>, "False", "none")
    ELSE IF outcome = "ok"
    THEN Connected(s, hs, fin)
    ELSE IF outcome = "SerialException"
    THEN Outcome([s EXCEPT !.is_connected = FALSE], hs,
                 <<IoCall("open", NoConnection, <<>>)>>, "False", "none")
    \* any other exception is not caught by `except serial.SerialException`
    ELSE Outcome(s, hs, <<IoCall("open", NoConnection, <<>>)>>, "raised", outcome)

\* mutant: disconnect without the is_open test
disconnect_recloses(s, hs) ==
    IF s.connection # NoConnection
    THEN Outcome([s EXCEPT !.is_connected = FALSE], Close(hs, s.connection),
                 <<IoCall("close", s.connection, <<>>)>>, "None", "none")
    ELSE Outcome(s, hs, <<>>, "None", "none")

\* mutant: disconnect closes the handle and forgets the flag
disconnect_keeps_flag(s, hs) ==
    IF s.connection # NoConnection /\ hs[s.connection].is_open
    THEN Outcome(s, Close(hs, s.connection),
                 <<IoCall("close", s.connection, <<>>)>>, "None", "none")
    ELSE Outcome(s, hs, <<>>, "None", "none")

\* NetumPrinter.disconnect
disconnect(s, hs) ==
    IF s.connection # NoConnection /\ hs[s.connection].is_open
    THEN Outcome([s EXCEPT !.is_connected = FALSE], Close(hs, s.connection),
                 <<IoCall("close", s.connection, <<>>)>>, "None", "none")
    ELSE Outcome(s, hs, <<>>, "None", "none")

\* the try block of print_text: encode, write, flush
WriteAndFlush(s, hs, text, outcome) ==
    LET h == s.connection
        data == IF text.kind = "str" THEN Utf8(text.val) ELSE text.val
    IN  IF text.kind = "str" /\ ~Encodable(text.val)
        THEN Outcome(s, hs, <<>>, "False", "none")
        ELSE IF outcome = "write_raises" \/ ~hs[h].is_open
        THEN Outcome(s, hs, <<IoCall("write", h, data)>>, "False", "none")
        ELSE IF outcome = "flush_raises"
        THEN Outcome(s, hs, <<IoCall("write", h, data), IoCall("flush", h, <<>>)>>,
                     "False", "none")
        ELSE Outcome(s, hs, <<IoCall("write", h, data), IoCall("flush", h, <<>>)>>,
                     "True", "none")

\* mutant: print_text tests only that a connection object exists
print_text_handle_only(s, hs, text, outcome) ==
    IF s.connection = NoConnection
    THEN Outcome(s, hs, <<>>, "False", "none")
    ELSE WriteAndFlush(s, hs, text, outcome)

\* NetumPrinter.print_text; text is [kind |-> "str" or "bytes", val |-> sequence]
print_text(s, hs, text, outcome) ==
    IF ~s.is_connected \/ s.connection = NoConnection
    THEN Outcome(s, hs, <<>>, "False", "none")
    ELSE WriteAndFlush(s, hs, text, outcome)

\* mutant: print_line forgets the newline
print_line_bare(s, hs, text, outcome) ==
    print_text(s, hs, [kind |-> "str", val |-> text], outcome)

\* NetumPrinter.print_line
print_line(s, hs, text, outcome) ==
    print_text(s, hs, [kind |-> "str", val |-> text \o <<NL>>], outcome)

\* NetumPrinter.feed_lines
feed_lines(s, hs, count, outcome) ==
    print_text(s, hs, [kind |-> "str", val |-> Repeat(NL, count)], outcome)

\* NetumPrinter.__enter__: connect, result ignored, returns self
__enter__(s, hs, outcome, fin) == connect(s, hs, outcome, fin)

\* mutant: __exit__ releases nothing
exit_noop(s, hs) == Outcome(s, hs, <<>>, "None", "none")

\* NetumPrinter.__exit__: disconnect, returns None so an exception keeps going
__exit__(s, hs) == disconnect(s, hs)

-----------------------------------------------------------------------------
(* Inputs *)

\* what serial.tools.list_ports.comports() can return
ComportLists == SeqsUpTo([device : Ports, description : Descriptions], MaxPorts)

\* constructor arguments
InitArgs ==
    [port : Ports \cup {None}, baudrate : Baudrates,
     auto_discover : BOOLEAN, comports : ComportLists]

\* str arguments of print_text and print_line
StrTexts == SeqsUpTo(Chars, MaxLen)

\* arguments of print_text: str or bytes
Payloads ==
    {[kind |-> "str", val |-> v] : v \in StrTexts}
        \cup {[kind |-> "bytes", val |-> v] : v \in SeqsUpTo(ByteVals, MaxLen)}

\* arguments of feed_lines
FeedCounts == (0 - 1)..MaxFeed

-----------------------------------------------------------------------------
(* State machine *)

ConnectOps == {"connect", "__enter__"}
DisconnectOps == {"disconnect", "__exit__"}
WriteOps == {"print_text", "print_line", "feed_lines"}

\* the record of an operation just performed
Performed(op, arg, r) ==
    [op |-> op, arg |-> arg, result |-> r.result,
     pre_self |-> self, pre_handles |-> handles, prev_op |-> last.op]

\* history after a connect call
HistConnect(r) ==
    IF r.result = "True"
    THEN [ok |-> TRUE, disc |-> FALSE, cfail |-> FALSE, wfail |-> FALSE]
    ELSE [hist EXCEPT !.cfail = TRUE]

\* history after a disconnect call
HistDisconnect == [hist EXCEPT !.disc = TRUE]

\* history after a write operation
HistWrite(r) == IF r.result = "False" THEN [hist EXCEPT !.wfail = TRUE] ELSE hist

\* the state right after NetumPrinter(port, baudrate, auto_discover)
Init ==
    \E a \in InitArgs :
        /\ self = __init__(a.port, a.baudrate, a.auto_discover, a.comports)
        /\ last = [op |-> "__init__", arg |-> a, result |-> "None",
                   pre_self |-> self, pre_handles |-> <<>>, prev_op |-> "none"]
        /\ phase = "out"
        /\ handles = <<>>
        /\ io = <<>>
        /\ exc = "none"
        /\ scope_base = 0
        /\ hist = [ok |-> FALSE, disc |-> FALSE, cfail |-> FALSE, wfail |-> FALSE]
        /\ steps = 0

\* the caller may make another call: nothing is propagating, bound not reached
CanCall == exc = "none" /\ steps < MaxOps

\* the effect of a method call on the session and the serial layer
Effect(op, arg, r) ==
    /\ self' = r.self
    /\ handles' = r.handles
    /\ io' = r.io
    /\ exc' = r.exc
    /\ last' = Performed(op, arg, r)
    /\ steps' = steps + 1

\* printer.connect()
Connect ==
    /\ CanCall
    /\ \E o \in OpenOutcomes(self.port, self.baudrate), fin \in BOOLEAN :
          LET r == connect(self, handles, o, fin)
          IN  Effect("connect", None, r) /\ hist' = HistConnect(r)
    /\ UNCHANGED <<phase, scope_base>>

\* printer.disconnect()
Disconnect ==
    /\ CanCall
    /\ LET r == disconnect(self, handles)
       IN  Effect("disconnect", None, r) /\ hist' = HistDisconnect
    /\ UNCHANGED <<phase, scope_base>>

\* printer.print_text(text)
PrintText ==
    /\ CanCall
    /\ \E text \in Payloads, o \in WriteOutcomes :
          LET r == print_text(self, handles, text, o)
          IN  Effect("print_text", text, r) /\ hist' = HistWrite(r)
    /\ UNCHANGED <<phase, scope_base>>

\* printer.print_line(text)
PrintLine ==
    /\ CanCall
    /\ \E text \in StrTexts, o \in WriteOutcomes :
          LET r == print_line(self, handles, text, o)
          IN  Effect("print_line", text, r) /\ hist' = HistWrite(r)
    /\ UNCHANGED <<phase, scope_base>>

\* printer.feed_lines(count)
FeedLines ==
    /\ CanCall
    /\ \E count \in FeedCounts, o \in WriteOutcomes :
          LET r == feed_lines(self, handles, count, o)
          IN  Effect("feed_lines", count, r) /\ hist' = HistWrite(r)
    /\ UNCHANGED <<phase, scope_base>>

\* `with printer:` is entered; if connect raises, the body never starts
Enter ==
    /\ CanCall
    /\ phase = "out"
    /\ \E o \in OpenOutcomes(self.port, self.baudrate), fin \in BOOLEAN :
          LET r == __enter__(self, handles, o, fin)
          IN  /\ Effect("__enter__", None, r)
              /\ hist' = HistConnect(r)
              /\ phase' = IF r.exc = "none" THEN "in" ELSE "out"
    /\ scope_base' = Len(handles)

\* code in the with body raises
BodyRaise ==
    /\ phase = "in"
    /\ exc = "none"
    /\ exc' = "BodyError"
    /\ UNCHANGED <<phase, self, handles, io, last, scope_base, hist, steps>>

\* the with scope is left, by normal completion or by a propagating exception
Exit ==
    /\ phase = "in"
    /\ LET r == __exit__(self, handles)
       IN  /\ self' = r.self
           /\ handles' = r.handles
           /\ io' = r.io
           /\ last' = Performed("__exit__", exc, r)
           /\ hist' = HistDisconnect
    /\ phase' = "out"
    /\ UNCHANGED <<exc, scope_base, steps>>

Next ==
    \/ Connect
    \/ Disconnect
    \/ PrintText
    \/ PrintLine
    \/ FeedLines
    \/ Enter
    \/ BodyRaise
    \/ Exit

Spec == Init /\ [][Next]_vars

-----------------------------------------------------------------------------
(* Properties *)

\* whether the session held an open handle before the last operation
HadOpenHandle ==
    /\ last.pre_self.connection # NoConnection
    /\ last.pre_handles[last.pre_self.connection].is_open

\* whether the session now holds no handle or a closed one
HandleReleased ==
    self.connection = NoConnection \/ ~handles[self.connection].is_open

\* C1: whenever a with scope has just been left, on normal completion or with
\* an exception propagating out of the body, disconnect ran on the state the
\* body left behind, the session's handle is closed and is_connected is false.
C1_ScopeExitReleases ==
    last.op = "__exit__" =>
        /\ last.arg \in {"none", "BodyError"}
        /\ ~self.is_connected
        /\ HandleReleased
        /\ self = disconnect(last.pre_self, last.pre_handles).self
        /\ handles = disconnect(last.pre_self, last.pre_handles).handles
        /\ HadOpenHandle => io = <<IoCall("close", self.connection, <<>>)>>

\* C1 witness: the scope was left by an exception while the session was connected
C1_Witness ==
    /\ last.op = "__exit__"
    /\ last.arg = "BodyError"
    /\ last.pre_self.is_connected
    /\ ~self.is_connected

\* C2: when a with scope has just been left, every handle opened by a connect
\* made since the scope was entered is closed, and was closed exactly once.
C2_NoHandleLeak ==
    last.op = "__exit__" =>
        \A h \in (scope_base + 1)..Len(handles) :
            ~handles[h].is_open /\ handles[h].closes = 1

\* C3: connect, print_text, print_line and feed_lines always return True or
\* False: no failure of the serial open, write or flush escapes as an exception.
C3_NoExceptionEscapes ==
    last.op \in {"connect"} \cup WriteOps =>
        last.result \in {"True", "False"}

\* the Bluetooth entries of an OS port list, as positions
BtPositions(comports) ==
    {i \in 1..Len(comports) : comports[i].description \in
        {"Standard Serial over Bluetooth link"}}

\* C4: right after construction the port is the explicit one if given; else,
\* with auto_discover and at least one Bluetooth port, COM8 if any Bluetooth
\* port is COM8 and otherwise the first Bluetooth port; else unresolved.
\* Construction raises nothing and leaves the session unconnected.
C4_PortResolution ==
    last.op = "__init__" =>
        LET a == last.arg
            bt == BtPositions(a.comports)
            first == CHOOSE i \in bt : \A j \in bt : i <= j
        IN  /\ a.port # None => self.port = a.port
            /\ a.port = None /\ a.auto_discover /\ bt # {} =>
                  IF \E i \in bt : a.comports[i].device = "COM8"
                  THEN self.port = "COM8"
                  ELSE self.port = a.comports[first].device
            /\ a.port = None /\ (~a.auto_discover \/ bt = {}) => self.port = None
            /\ exc = "none"
            /\ self.connection = NoConnection
            /\ ~self.is_connected
            /\ self.baudrate = a.baudrate

\* C4 witness: COM8 is discovered second, behind another Bluetooth port
C4_Witness ==
    /\ last.op = "__init__"
    /\ last.arg.port = None
    /\ last.arg.auto_discover
    /\ Len(last.arg.comports) >= 2
    /\ BtPositions(last.arg.comports) = {1, 2}
    /\ last.arg.comports[1].device = "COM9"
    /\ last.arg.comports[2].device = "COM8"
    /\ self.port = "COM8"

\* C5: with the port unresolved, connect (called directly or by __enter__)
\* returns False, makes no call on the serial layer and changes nothing.
C5_UnresolvedConnect ==
    last.op \in ConnectOps /\ last.pre_self.port = None =>
        /\ last.result = "False"
        /\ io = <<>>
        /\ self = last.pre_self
        /\ handles = last.pre_handles

\* C5 witness: connect was called on a session built with no port discovered
C5_Witness ==
    /\ last.op = "connect"
    /\ last.prev_op = "__init__"
    /\ self.port = None
    /\ last.result = "False"

\* C6: a write operation called while is_connected is false returns False and
\* makes no write and no flush, also when the session still holds an open handle.
C6_WriteWhenDisconnected ==
    last.op \in WriteOps /\ ~last.pre_self.is_connected =>
        /\ last.result = "False"
        /\ io = <<>>
        /\ self = last.pre_self
        /\ handles = last.pre_handles

\* C6 witness: a write after a failed re-connect that left the old handle open
C6_Witness ==
    /\ last.op \in WriteOps
    /\ ~last.pre_self.is_connected
    /\ HadOpenHandle
    /\ last.prev_op = "connect"
    /\ last.result = "False"

\* C7: disconnect raises nothing, leaves is_connected false and makes at most
\* one close call, on the session's own handle; a disconnect right after a
\* disconnect, or on a session that never opened a handle, changes nothing and
\* calls nothing, so two disconnects in succession close the handle at most once.
C7_DisconnectIdempotent ==
    last.op = "disconnect" =>
        /\ ~self.is_connected
        /\ last.result = "None"
        /\ self.connection = last.pre_self.connection
        /\ io \in {<<>>, <<IoCall("close", self.connection, <<>>)>>}
        /\ \A h \in 1..Len(handles) :
              handles[h].closes =
                  last.pre_handles[h].closes
                      + (IF io # <<>> /\ h = self.connection THEN 1 ELSE 0)
        /\ last.prev_op = "disconnect" \/ last.pre_handles = <<>> =>
              /\ self = last.pre_self
              /\ handles = last.pre_handles
              /\ io = <<>>

\* C7 witness: the second of two disconnects on a session that was connected
C7_Witness ==
    /\ last.op = "disconnect"
    /\ last.prev_op = "disconnect"
    /\ self.connection # NoConnection
    /\ handles[self.connection].closes = 1

\* C8 as stated: is_connected only if a connect succeeded and, since the last
\* success, there was no disconnect and no failure of any operation.
C8_Original ==
    self.is_connected =>
        hist.ok /\ ~hist.disc /\ ~hist.cfail /\ ~hist.wfail

\* C8 amended: is_connected only if a connect succeeded and, since the last
\* success, there was no disconnect and no failed connect; a failed write
\* leaves is_connected as it was.
C8_ConnectedOnlyAfterSuccess ==
    /\ self.is_connected => hist.ok /\ ~hist.disc /\ ~hist.cfail
    /\ last.op \in WriteOps => self.is_connected = last.pre_self.is_connected

\* C8 witness: still connected after a write that failed
C8_Witness ==
    /\ self.is_connected
    /\ hist.wfail
    /\ last.op \in WriteOps
    /\ last.result = "False"

\* the UTF-8 bytes of the code points the payloads use, from the encoding tables
Utf8Table(c) ==
    CASE c = 10 -> <<10>>
      [] c = 72 -> <<72>>
      [] c = 233 -> <<195, 169>>
      [] c = 8364 -> <<226, 130, 172>>

RECURSIVE Utf8Expected(_)
\* the UTF-8 bytes of a string, by the table
Utf8Expected(text) ==
    IF text = <<>> THEN <<>>
    ELSE Utf8Table(Head(text)) \o Utf8Expected(Tail(text))

\* the str or bytes the last write operation stands for as a print_text call
WrittenText ==
    CASE last.op = "print_line" -> [kind |-> "str", val |-> Append(last.arg, 10)]
      [] last.op = "feed_lines" ->
            [kind |-> "str",
             val |-> IF last.arg = 2 THEN <<10, 10>>
                     ELSE IF last.arg = 1 THEN <<10>>
                     ELSE IF last.arg <= 0 THEN <<>>
                     ELSE [i \in 1..last.arg |-> 10]]
      [] OTHER -> last.arg

\* C9: on a connected session a write operation hands the connection, in one
\* write, exactly the UTF-8 bytes of its string (text plus newline for
\* print_line, count newlines for feed_lines, bytes payloads unchanged); a
\* flush is made only after that write, and always when the write returns.
C9_BytesWritten ==
    last.op \in WriteOps /\ last.pre_self.is_connected =>
        LET t == WrittenText
            h == last.pre_self.connection
            hasBytes == t.kind = "bytes" \/ \A i \in 1..Len(t.val) : t.val[i] # 55296
            bytes == IF t.kind = "bytes" THEN t.val ELSE Utf8Expected(t.val)
        IN  IF hasBytes
            THEN /\ Len(io) \in {1, 2}
                 /\ io[1] = IoCall("write", h, bytes)
                 /\ Len(io) = 2 => io[2] = IoCall("flush", h, <<>>)
                 /\ last.result = "True" => Len(io) = 2
            ELSE io = <<>> /\ last.result = "False"

\* C9 witness: print_line of e-acute wrote C3 A9 0A and flushed
C9_Witness ==
    /\ last.op = "print_line"
    /\ last.arg = <<233>>
    /\ last.result = "True"
    /\ io = <<IoCall("write", self.connection, <<195, 169, 10>>),
              IoCall("flush", self.connection, <<>>)>>

\* C10: whenever is_connected is true the session holds a handle and that
\* handle is open.
C10_ConnectedHasOpenHandle ==
    self.is_connected =>
        self.connection # NoConnection /\ handles[self.connection].is_open

\* C10 witness: connected on a second handle after the first was closed
C10_Witness ==
    /\ self.is_connected
    /\ self.connection = 2
    /\ ~handles[1].is_open
    /\ handles[2].is_open

=============================================================================
